---- MODULE Spec2Model ----
(***************************************************************************)
(* A model of the routerman routing/dispatch core:                         *)
(*   - RouterBuilder / Router / RequestService / RequestFuture             *)
(*     (src/src/router.rs),                                                *)
(*   - RouteParamsExt::try_from (src/src/request/ext.rs),                  *)
(*   - DefaultFormatter::format_error (src/src/response/mod.rs),           *)
(*   - MethodRouter and its conversion into a Route (src/src/method.rs),   *)
(*   - the conversion of a tuple of response parts into a response         *)
(*     (src/src/response/parts.rs, src/src/response/impls.rs).             *)
(*                                                                         *)
(* Strings are sequences of one-character strings; byte strings are        *)
(* sequences of integers.  Option<T> is a sequence of length 0 or 1.       *)
(***************************************************************************)
EXTENDS Integers, Sequences, FiniteSets, TLC

VARIABLES
    phase,      \* "building" | "built" | "panicked" : life of the RouterBuilder
    panicMsg,   \* Option<String>: the message of the panic that ended the builder
    routes,     \* RouterBuilder.routes / RouterImpl.inner : Seq of [path, route]
    default,    \* RouterBuilder.default / RouterImpl.default : Option<Route>
    req,        \* Option<Request>: the request handed to RequestService::call
    fut,        \* Option<RequestFuture>: what call returned for req
    invoked,    \* Seq of [route, req]: every handler_fn invocation made for req
    formatted,  \* Seq of RouteError: every format_error call made for req
    out,        \* Seq of Poll::Ready values handed to the transport for req
    mr,         \* [1..2 -> Option<MethodRouter>]: method routers under construction
    mrPanic,    \* TRUE once MethodRouter::merge has panicked
    mop,        \* the last MethodRouter operation: its arguments and its outcome
    conns,      \* [1..MaxConns -> Option<...>]: the requests served concurrently, each
                \* with its own RequestService clone and RequestFuture
    tuple,      \* the (part_1, ..., part_n, terminal) value a handler returned
    converted   \* Option<...>: what IntoResponse::into_response made of tuple

vars == <<phase, panicMsg, routes, default, req, fut, invoked, formatted, out,
          mr, mrPanic, mop, conns, tuple, converted>>

pathVars == <<phase, panicMsg, routes, default, req, fut, invoked, formatted, out>>
methodVars == <<mr, mrPanic, mop>>
connVars == <<conns>>
partVars == <<tuple, converted>>

\* ---------------------------------------------------------------- bounds
MaxRoutes == 2      \* routes registered on one builder
MaxPolls == 2       \* polls a handler future may answer Pending
MaxMethods == 3     \* HTTP methods the method routers are built from
MaxConns == 2       \* requests served concurrently
MaxParts == 2       \* leading parts of a response tuple

None == <<>>
Some(v) == <<v>>
IsSome(o) == Len(o) = 1
Unwrap(o) == o[1]
OptSet(o) == {o[i] : i \in 1..Len(o)}

\* ------------------------------------------------------------ strings
RECURSIVE Join(_, _)
\* [String]::join(sep)
Join(strs, sep) ==
    IF Len(strs) = 0 THEN <<>>
    ELSE IF Len(strs) = 1 THEN strs[1]
    ELSE strs[1] \o sep \o Join(Tail(strs), sep)

RECURSIVE SplitOn(_, _)
\* str::split(c): the pieces of s between occurrences of c
SplitOn(s, c) ==
    IF \A i \in 1..Len(s) : s[i] # c THEN <<s>>
    ELSE LET i == CHOOSE k \in 1..Len(s) :
                      s[k] = c /\ \A j \in 1..(k - 1) : s[j] # c
         IN  <<SubSeq(s, 1, i - 1)>> \o SplitOn(SubSeq(s, i + 1, Len(s)), c)

\* str::strip_suffix('/')
strip_suffix(s) ==
    IF Len(s) > 0 /\ s[Len(s)] = "/" THEN Some(SubSeq(s, 1, Len(s) - 1)) ELSE None

\* the byte of each character the model's paths are written with
Byte(c) ==
    CASE c = "/" -> 47 [] c = "%" -> 37 [] c = "?" -> 63 [] c = "=" -> 61
      [] c = "1" -> 49 [] c = "4" -> 52 [] c = "F" -> 70
      [] c = "u" -> 117 [] c = "x" -> 120 [] c = "h" -> 104

IsHex(c) == c \in {"1", "4", "F"}
HexVal(c) == CASE c = "1" -> 1 [] c = "4" -> 4 [] c = "F" -> 15

\* ------------------------------------------------- percent decoding
RECURSIVE percent_decode(_)
\* percent_encoding::percent_decode(v.as_bytes()): "%XY" with two hex digits
\* becomes the byte 16*X+Y; any other '%' is kept as it is
percent_decode(s) ==
    IF Len(s) = 0 THEN <<>>
    ELSE IF s[1] = "%" /\ Len(s) >= 3 /\ IsHex(s[2]) /\ IsHex(s[3])
         THEN <<16 * HexVal(s[2]) + HexVal(s[3])>> \o percent_decode(SubSeq(s, 4, Len(s)))
         ELSE <<Byte(s[1])>> \o percent_decode(Tail(s))

IsCont(bs, i) == i <= Len(bs) /\ bs[i] >= 128 /\ bs[i] <= 191

RECURSIVE ValidUtf8(_)
\* core::str::from_utf8 accepts bs
ValidUtf8(bs) ==
    IF Len(bs) = 0 THEN TRUE
    ELSE LET b == bs[1] IN
         IF b < 128 THEN ValidUtf8(Tail(bs))
         ELSE IF b >= 194 /\ b <= 223
              THEN IsCont(bs, 2) /\ ValidUtf8(SubSeq(bs, 3, Len(bs)))
         ELSE IF b >= 224 /\ b <= 239
              THEN /\ IsCont(bs, 2) /\ IsCont(bs, 3)
                   /\ (b = 224 => bs[2] >= 160)
                   /\ (b = 237 => bs[2] <= 159)
                   /\ ValidUtf8(SubSeq(bs, 4, Len(bs)))
         ELSE IF b >= 240 /\ b <= 244
              THEN /\ IsCont(bs, 2) /\ IsCont(bs, 3) /\ IsCont(bs, 4)
                   /\ (b = 240 => bs[2] >= 144)
                   /\ (b = 244 => bs[2] <= 143)
                   /\ ValidUtf8(SubSeq(bs, 5, Len(bs)))
         ELSE FALSE

\* PercentDecode::decode_utf8: Ok(str) as Some(bytes of the str), Err as None
decode_utf8(bs) == IF ValidUtf8(bs) THEN Some(bs) ELSE None

RECURSIVE CollectParams(_, _)
\* Iterator<Item = Result<(k, v), E>>::collect::<Result<HashMap, E>>():
\* the first Err in iteration order ends the collection
CollectParams(ps, acc) ==
    IF Len(ps) = 0 THEN [ok |-> TRUE, map |-> acc, key |-> None]
    ELSE LET d == decode_utf8(percent_decode(ps[1][2])) IN
         IF IsSome(d)
         THEN CollectParams(Tail(ps),
                  [k \in (DOMAIN acc) \cup {ps[1][1]} |->
                      IF k = ps[1][1] THEN Unwrap(d) ELSE acc[k]])
         ELSE [ok |-> FALSE, map |-> << >>, key |-> Some(ps[1][1])]

EmptyMap == [k \in {} |-> <<>>]

RECURSIVE CollectRaw(_, _)
CollectRaw(ps, acc) ==
    IF Len(ps) = 0 THEN [ok |-> TRUE, map |-> acc, key |-> None]
    ELSE CollectRaw(Tail(ps),
             [k \in (DOMAIN acc) \cup {ps[1][1]} |->
                 IF k = ps[1][1] THEN [i \in 1..Len(ps[1][2]) |-> Byte(ps[1][2][i])]
                 ELSE acc[k]])

\* RouteParamsExt::try_from storing the raw captures, undecoded
try_from_raw(params) == CollectRaw(params, EmptyMap)

RECURSIVE CollectValid(_, _)
CollectValid(ps, acc) ==
    IF Len(ps) = 0 THEN [ok |-> TRUE, map |-> acc, key |-> None]
    ELSE LET d == decode_utf8(percent_decode(ps[1][2])) IN
         IF IsSome(d)
         THEN CollectValid(Tail(ps),
                  [k \in (DOMAIN acc) \cup {ps[1][1]} |->
                      IF k = ps[1][1] THEN Unwrap(d) ELSE acc[k]])
         ELSE CollectValid(Tail(ps), acc)

\* RouteParamsExt::try_from dropping the captures that fail to decode (filter_map)
try_from_skip_invalid(params) == CollectValid(params, EmptyMap)

\* RouteParamsExt::try_from(params)
RouteParamsExt_try_from(params) == CollectParams(params, EmptyMap)

\* ------------------------------------------------------- the path trie
\* A pattern is the sequence of its segments: a literal is <<"lit", chars>>, a
\* named parameter <<"param", name>>; a trailing '/' is a final empty literal.
Lit(cs) == <<"lit", cs>>
Param(n) == <<"param", n>>

PatX == <<Lit(<<"x">>)>>                                    \* "/x"
PatXSlash == <<Lit(<<"x">>), Lit(<<>>)>>                    \* "/x/"
PatUP == <<Lit(<<"u">>), Param("p")>>                       \* "/u/:p"
PatUQ == <<Lit(<<"u">>), Param("q")>>                       \* "/u/:q"
PatAB == <<Lit(<<"1">>), Param("a"), Param("b"), Lit(<<>>)>> \* "/1/:a/:b/"

Patterns == {PatX, PatXSlash, PatUP, PatUQ, PatAB}

\* the segments of a request path: "/u/x/" is <<"u", "x", "">>
Segs(path) == SplitOn(Tail(path), "/")

SegMatches(pseg, seg) ==
    IF pseg[1] = "lit" THEN seg = pseg[2] ELSE Len(seg) > 0

\* pattern pat matches the whole of path
Matches(pat, path) ==
    /\ Len(path) > 0 /\ path[1] = "/"
    /\ LET segs == Segs(path) IN
       /\ Len(segs) = Len(pat)
       /\ \A i \in 1..Len(pat) : SegMatches(pat[i], segs[i])

\* the raw captures of a match, in pattern order
Captures(pat, path) ==
    LET segs == Segs(path)
        idx == {i \in 1..Len(pat) : pat[i][1] = "param"}
        RECURSIVE From(_)
        From(i) == IF i > Len(pat) THEN <<>>
                   ELSE IF i \in idx THEN <<<<pat[i][2], segs[i]>>>> \o From(i + 1)
                   ELSE From(i + 1)
    IN  From(1)

ParamNames(pat) == {pat[i][2] : i \in {j \in 1..Len(pat) : pat[j][1] = "param"}}

\* two patterns that some path matches both: matchit's insert refuses the second
Conflict(p, q) ==
    /\ Len(p) = Len(q)
    /\ \A i \in 1..Len(p) :
          \/ p[i][1] = "param" /\ q[i][1] = "param"
          \/ p[i] = q[i]

\* matchit::Router::at(path) on the trie holding rs
Router_at(rs, path) ==
    LET hit(pth) == {i \in 1..Len(rs) : Matches(rs[i].path, pth)}
        stripped == strip_suffix(path)
    IN  IF hit(path) # {}
        THEN LET i == CHOOSE j \in hit(path) : TRUE IN
             [kind |-> "Ok", value |-> Some(rs[i].route),
              params |-> Captures(rs[i].path, path)]
        ELSE IF Len(path) > 1 /\ IsSome(stripped) /\ hit(Unwrap(stripped)) # {}
        THEN [kind |-> "ExtraTrailingSlash", value |-> None, params |-> <<>>]
        ELSE IF hit(path \o <<"/">>) # {}
        THEN [kind |-> "MissingTrailingSlash", value |-> None, params |-> <<>>]
        ELSE [kind |-> "NotFound", value |-> None, params |-> <<>>]

\* ------------------------------------------------------------- Uri
\* A Uri is [origin, path, query]: origin is the text of scheme and authority
\* (empty for an origin-form request target), query an Option.
Uri(origin, path, query) == [origin |-> origin, path |-> path, query |-> query]

\* <PathAndQuery as FromStr>::from_str: the path ends at the first '?'
ParsePathAndQuery(text) ==
    LET parts == SplitOn(text, "?") IN
    IF Len(parts) = 1 THEN [path |-> text, query |-> None]
    ELSE [path |-> parts[1],
          query |-> Some(SubSeq(text, Len(parts[1]) + 2, Len(text)))]

\* <Uri as Display>::fmt
UriDisplay(uri) ==
    uri.origin \o uri.path
        \o (IF IsSome(uri.query) THEN <<"?">> \o Unwrap(uri.query) ELSE <<>>)

\* replace_path keeping the formatted text whole as the path, the query not
\* parsed off it
replace_path_unparsed(uri, path) ==
    LET text == IF IsSome(uri.query) THEN path \o <<"?">> \o Unwrap(uri.query)
                ELSE path
    IN  [origin |-> uri.origin, path |-> text, query |-> None]

\* fn replace_path(uri: &Uri, path: impl Display) -> Uri
replace_path(uri, path) ==
    LET text == IF IsSome(uri.query) THEN path \o <<"?">> \o Unwrap(uri.query)
                ELSE path
        pq == ParsePathAndQuery(text)
    IN  [origin |-> uri.origin, path |-> pq.path, query |-> pq.query]

\* ------------------------------------------------ errors and responses
NotFound == [kind |-> "NotFound", uri |-> None, key |-> None]
Expected(uri) == [kind |-> "Expected", uri |-> Some(uri), key |-> None]
PathError(key) == [kind |-> "Path", uri |-> None, key |-> Some(key)]

\* the Display text thiserror derives for RouteError and InvalidParamEncoding
RouteError_to_string(err) ==
    CASE err.kind = "NotFound" -> <<"not found">>
      [] err.kind = "Expected" -> <<"expected uri: ", UriDisplay(Unwrap(err.uri))>>
      [] err.kind = "Path" ->
            <<"invalid param encoding: ", "invalid param encoding for key ",
              Unwrap(err.key)>>

Response(status, headers, body) ==
    [status |-> status, headers |-> headers, body |-> body]

\* <RouteError as Reply<DefaultFormatter>>::reply: the rendering response/impls.rs
\* gives the routing errors; RequestService::call does not go through it
RouteError_reply(err) ==
    CASE err.kind = "NotFound" -> Response(404, {}, <<>>)
      [] err.kind = "Expected" ->
            Response(308, {<<"location", UriDisplay(Unwrap(err.uri))>>}, <<>>)
      [] err.kind = "Path" -> Response(400, {}, <<>>)

\* <DefaultFormatter as Formatter>::format_error
format_error(err) ==
    Response(500, {<<"content-type", "text/plain">>}, RouteError_to_string(err))

\* -------------------------------------------------------------- routes
Handlers == {"h1", "h2"}
DefaultHandler == "hd"
Route(h) == [fn |-> h]

\* ----------------------------------------------------- MethodRouter
\* <Method as Display>::fmt, as bytes
MethodStr(m) ==
    CASE m = "GET" -> <<71, 69, 84>>
      [] m = "POST" -> <<80, 79, 83, 84>>
      [] m = "PUT" -> <<80, 85, 84>>
      [] m = "DELETE" -> <<68, 69, 76, 69, 84, 69>>
      [] m = "HEAD" -> <<72, 69, 65, 68>>

AllMethods == <<"POST", "GET", "PUT", "DELETE", "HEAD">>
Methods == {AllMethods[i] : i \in 1..MaxMethods}

RECURSIVE StrLess(_, _)
\* <str as Ord>::lt: byte-wise lexicographic order
StrLess(a, b) ==
    IF Len(b) = 0 THEN FALSE
    ELSE IF Len(a) = 0 THEN TRUE
    ELSE IF a[1] # b[1] THEN a[1] < b[1]
    ELSE StrLess(Tail(a), Tail(b))

RECURSIVE InsertSorted(_, _)
InsertSorted(sorted, x) ==
    IF Len(sorted) = 0 THEN <<x>>
    ELSE IF StrLess(x, sorted[1]) THEN <<x>> \o sorted
    ELSE <<sorted[1]>> \o InsertSorted(Tail(sorted), x)

RECURSIVE SortStrs(_)
\* <[String]>::sort
SortStrs(strs) ==
    IF Len(strs) = 0 THEN <<>> ELSE InsertSorted(SortStrs(Tail(strs)), strs[1])

\* HashMap::keys(): the keys, each once, in an order the map chooses (here the
\* order of AllMethods, which is not the sorted one)
KeysOf(keys) == SelectSeq(AllMethods, LAMBDA m : m \in keys)

FallbackNone(allow_header) ==
    [kind |-> "None", route |-> None, allow_header |-> Some(allow_header)]
FallbackRoute(route) ==
    [kind |-> "Route", route |-> Some(route), allow_header |-> None]

NoHandlers == [m \in {} |-> Route("h1")]

\* MethodRouter::new()
MethodRouter_new == [handlers |-> NoHandlers, fallback |-> FallbackNone(<<>>)]

\* update_allow_header joining the names with a bare comma
update_allow_header_comma(r) ==
    IF r.fallback.kind = "None"
    THEN LET keys == KeysOf(DOMAIN r.handlers)
             methods == SortStrs([i \in 1..Len(keys) |-> MethodStr(keys[i])])
         IN  [r EXCEPT !.fallback = FallbackNone(Join(methods, <<44>>))]
    ELSE r

\* update_allow_header recomputing the Allow value whatever the fallback is
update_allow_header_always(r) ==
    LET keys == KeysOf(DOMAIN r.handlers)
        methods == SortStrs([i \in 1..Len(keys) |-> MethodStr(keys[i])])
    IN  [r EXCEPT !.fallback = FallbackNone(Join(methods, <<44, 32>>))]

\* MethodRouter::update_allow_header(&mut self)
update_allow_header(r) ==
    IF r.fallback.kind = "None"
    THEN LET keys == KeysOf(DOMAIN r.handlers)
             methods == SortStrs([i \in 1..Len(keys) |-> MethodStr(keys[i])])
         IN  [r EXCEPT !.fallback = FallbackNone(Join(methods, <<44, 32>>))]
    ELSE r

\* HashMap::insert(k, v)
HashMap_insert(map, k, v) ==
    [x \in (DOMAIN map) \cup {k} |-> IF x = k THEN v ELSE map[x]]

\* an extend that keeps the entry already present on a key collision
HashMap_extend_keep(map, other) ==
    [x \in (DOMAIN map) \cup (DOMAIN other) |->
        IF x \in DOMAIN map THEN map[x] ELSE other[x]]

\* HashMap::extend(other.into_iter())
HashMap_extend(map, other) ==
    [x \in (DOMAIN map) \cup (DOMAIN other) |->
        IF x \in DOMAIN other THEN other[x] ELSE map[x]]

\* MethodRouter::set_method(&mut self, method, route)
set_method(r, method, route) ==
    update_allow_header([r EXCEPT !.handlers = HashMap_insert(r.handlers, method, route)])

\* MethodRouter::set_fallback(&mut self, route)
set_fallback(r, route) == [r EXCEPT !.fallback = FallbackRoute(route)]

\* merge without its final update_allow_header
merge_no_update(self, other) ==
    LET s1 == [self EXCEPT !.handlers = HashMap_extend(self.handlers, other.handlers)]
    IN  IF self.fallback.kind = "Route" /\ other.fallback.kind = "Route"
        THEN [router |-> s1, panicked |-> TRUE]
        ELSE IF other.fallback.kind = "Route"
        THEN [router |-> [s1 EXCEPT !.fallback = other.fallback], panicked |-> FALSE]
        ELSE [router |-> s1, panicked |-> FALSE]

\* merge without the check for two fallback routes: the other's fallback wins
merge_no_panic(self, other) ==
    LET s1 == [self EXCEPT !.handlers = HashMap_extend(self.handlers, other.handlers)]
    IN  IF other.fallback.kind = "Route"
        THEN [router |-> update_allow_header([s1 EXCEPT !.fallback = other.fallback]),
              panicked |-> FALSE]
        ELSE [router |-> update_allow_header(s1), panicked |-> FALSE]

\* MethodRouter::merge(&mut self, other): self afterwards, and whether it panicked
merge(self, other) ==
    LET s1 == [self EXCEPT !.handlers = HashMap_extend(self.handlers, other.handlers)]
    IN  IF self.fallback.kind = "Route" /\ other.fallback.kind = "Route"
        THEN [router |-> s1, panicked |-> TRUE]
        ELSE IF other.fallback.kind = "Route"
        THEN [router |-> update_allow_header([s1 EXCEPT !.fallback = other.fallback]),
              panicked |-> FALSE]
        ELSE [router |-> update_allow_header(s1), panicked |-> FALSE]

\* a dispatch that consults the fallback Route before the method map
MethodRoute_call_fallback_first(r, method) ==
    IF r.fallback.kind = "Route"
    THEN [invoked |-> r.fallback.route, response |-> None]
    ELSE IF method \in DOMAIN r.handlers
    THEN [invoked |-> Some(r.handlers[method]), response |-> None]
    ELSE [invoked |-> None,
          response |-> Some(Response(405,
                          {<<"allow", Unwrap(r.fallback.allow_header)>>}, <<>>))]

\* the closure of <Route as From<MethodRouter>>::from, called with a request of
\* the given method: the Route it invokes, or the response it builds itself
MethodRoute_call(r, method) ==
    IF method \in DOMAIN r.handlers
    THEN [invoked |-> Some(r.handlers[method]), response |-> None]
    ELSE IF r.fallback.kind = "Route"
    THEN [invoked |-> r.fallback.route, response |-> None]
    ELSE [invoked |-> None,
          response |-> Some(Response(405,
                          {<<"allow", Unwrap(r.fallback.allow_header)>>}, <<>>))]

\* <Route as From<MethodRouter>>::from(r): a Route whose handler is the closure
\* over the method router r
MethodRoute(r) == [fn |-> "methods", router |-> r]

\* get(g1).post(p1): the method router some path patterns are bound to
ItemsRouter ==
    set_method(set_method(MethodRouter_new, "POST", Route("p1")), "GET", Route("g1"))

\* ------------------------------------------------------------ requests
RemoteAddr == "peer"

Request(method, uri) ==
    [method |-> method, uri |-> uri, remote_addr |-> None, params |-> None]

\* what the handler behind a Route answers once its future completes: a plain
\* handler answers 200; the closure of a method router answers as the Route it
\* selects, or with its own 405
HandlerResponse(route, request) ==
    IF route.fn = "methods"
    THEN LET d == MethodRoute_call(route.router, request.method) IN
         IF IsSome(d.response) THEN Unwrap(d.response)
         ELSE Response(200, {}, <<"handler", Unwrap(d.invoked).fn>>)
    ELSE Response(200, {}, <<"handler", route.fn>>)

\* RequestFuture::Route(fut) and RequestFuture::Response(res)
FutRoute(route, request) ==
    [kind |-> "Route", route |-> Some(route), request |-> Some(request),
     res |-> None, polls |-> 0, completed |-> FALSE, repolled |-> FALSE,
     panicked |-> FALSE]
FutResponse(res) ==
    [kind |-> "Response", route |-> None, request |-> None,
     res |-> Some(res), polls |-> 0, completed |-> FALSE, repolled |-> FALSE,
     panicked |-> FALSE]

LookupOk(route, params) ==
    [ok |-> TRUE, route |-> Some(route), params |-> params, err |-> None]
LookupErr(err) ==
    [ok |-> FALSE, route |-> None, params |-> None, err |-> Some(err)]

\* call's lookup treating every MatchError as NotFound
call_lookup_any_err_default(rs, dflt, req1) ==
    LET path == req1.uri.path
        m == Router_at(rs, path)
    IN  IF m.kind = "Ok"
        THEN LET p == RouteParamsExt_try_from(m.params) IN
             IF p.ok THEN LookupOk(Unwrap(m.value), Some(p.map))
             ELSE LookupErr(PathError(Unwrap(p.key)))
        ELSE IF IsSome(dflt) THEN LookupOk(Unwrap(dflt), None)
        ELSE LookupErr(NotFound)

\* call's lookup answering with the default route whenever one is configured
call_lookup_default_shadows(rs, dflt, req1) ==
    LET path == req1.uri.path
        m == Router_at(rs, path)
    IN  IF IsSome(dflt) THEN LookupOk(Unwrap(dflt), None)
        ELSE CASE m.kind = "Ok" ->
                    LET p == RouteParamsExt_try_from(m.params) IN
                    IF p.ok THEN LookupOk(Unwrap(m.value), Some(p.map))
                    ELSE LookupErr(PathError(Unwrap(p.key)))
              [] m.kind = "NotFound" -> LookupErr(NotFound)
              [] m.kind = "ExtraTrailingSlash" ->
                    LookupErr(Expected(replace_path(req1.uri, Unwrap(strip_suffix(path)))))
              [] m.kind = "MissingTrailingSlash" ->
                    LookupErr(Expected(replace_path(req1.uri, path \o <<"/">>)))

\* RequestService::call, `let res = match self.router.inner.at(req.uri().path())`:
\* Ok((route, params)) or Err(RouteError)
call_lookup(rs, dflt, req1) ==
    LET path == req1.uri.path
        m == Router_at(rs, path)
    IN  CASE m.kind = "Ok" ->
                LET p == RouteParamsExt_try_from(m.params) IN
                IF p.ok THEN LookupOk(Unwrap(m.value), Some(p.map))
                ELSE LookupErr(PathError(Unwrap(p.key)))
          [] m.kind = "NotFound" ->
                IF IsSome(dflt) THEN LookupOk(Unwrap(dflt), None)
                ELSE LookupErr(NotFound)
          [] m.kind = "ExtraTrailingSlash" ->
                LookupErr(Expected(replace_path(req1.uri, Unwrap(strip_suffix(path)))))
          [] m.kind = "MissingTrailingSlash" ->
                LookupErr(Expected(replace_path(req1.uri, path \o <<"/">>)))

\* call's dispatch invoking the handler function twice
call_finish_twice(res, req1) ==
    IF res.ok
    THEN LET req2 == IF IsSome(res.params)
                     THEN [req1 EXCEPT !.params = res.params]
                     ELSE req1
             inv == [route |-> Unwrap(res.route), request |-> req2]
         IN  [fut |-> FutRoute(Unwrap(res.route), req2),
              invoked |-> <<inv, inv>>,
              formatted |-> <<>>]
    ELSE [fut |-> FutResponse(format_error(Unwrap(res.err))),
          invoked |-> <<>>,
          formatted |-> <<Unwrap(res.err)>>]

\* call's dispatch attaching a RouteParams map to every request, an empty one
\* when the lookup returned no parameters
call_finish_params_always(res, req1) ==
    IF res.ok
    THEN LET req2 == IF IsSome(res.params)
                     THEN [req1 EXCEPT !.params = res.params]
                     ELSE [req1 EXCEPT !.params = Some(EmptyMap)]
         IN  [fut |-> FutRoute(Unwrap(res.route), req2),
              invoked |-> <<[route |-> Unwrap(res.route), request |-> req2]>>,
              formatted |-> <<>>]
    ELSE [fut |-> FutResponse(format_error(Unwrap(res.err))),
          invoked |-> <<>>,
          formatted |-> <<Unwrap(res.err)>>]

\* RequestService::call, `match res`: the RequestFuture returned, the handler
\* invocations made and the errors formatted
call_finish(res, req1) ==
    IF res.ok
    THEN LET req2 == IF IsSome(res.params)
                     THEN [req1 EXCEPT !.params = res.params]
                     ELSE req1
         IN  [fut |-> FutRoute(Unwrap(res.route), req2),
              invoked |-> <<[route |-> Unwrap(res.route), request |-> req2]>>,
              formatted |-> <<>>]
    ELSE [fut |-> FutResponse(format_error(Unwrap(res.err))),
          invoked |-> <<>>,
          formatted |-> <<Unwrap(res.err)>>]

\* RequestService::call(req)
RequestService_call(rs, dflt, request) ==
    LET req1 == [request EXCEPT !.remote_addr = Some(RemoteAddr)]
    IN  call_finish(call_lookup(rs, dflt, req1), req1)

\* -------------------------------------------------- RouterBuilder
\* matchit::Router::insert of every route in order: Ok unless two patterns conflict
InsertAllOk(rs) ==
    \A i, j \in 1..Len(rs) : i < j => ~Conflict(rs[i].path, rs[j].path)

\* the builders a RouterBuilder may be merged with
OtherBuilders ==
    {[routes |-> <<>>, default |-> Some(Route(DefaultHandler))],
     [routes |-> <<[path |-> PatXSlash, route |-> Route("h2")]>>, default |-> None]}

\* the patterns a method router is registered with
MethodPatterns == {PatUP}

\* RouterBuilder::route(path, handler)
RouterBuilder_route(p, route) ==
    /\ phase = "building"
    /\ Len(routes) < MaxRoutes
    /\ routes' = Append(routes, [path |-> p, route |-> route])
    /\ UNCHANGED <<phase, panicMsg, default, req, fut, invoked, formatted, out>>
    /\ UNCHANGED <<methodVars, connVars, partVars>>

\* RouterBuilder::default_route(route)
RouterBuilder_default_route(h) ==
    /\ phase = "building"
    /\ default' = Some(Route(h))
    /\ UNCHANGED <<phase, panicMsg, routes, req, fut, invoked, formatted, out>>
    /\ UNCHANGED <<methodVars, connVars, partVars>>

\* RouterBuilder::merge(router)
RouterBuilder_merge(other) ==
    /\ phase = "building"
    /\ Len(routes) + Len(other.routes) <= MaxRoutes
    /\ routes' = routes \o other.routes
    /\ default' = IF IsSome(other.default) THEN other.default ELSE default
    /\ phase' = IF IsSome(other.default) /\ IsSome(default)
                THEN "panicked" ELSE "building"
    /\ panicMsg' = IF IsSome(other.default) /\ IsSome(default)
                   THEN Some("cannot merge routers with conflicting default routes")
                   ELSE None
    /\ UNCHANGED <<req, fut, invoked, formatted, out>>
    /\ UNCHANGED <<methodVars, connVars, partVars>>

\* a build() that ignores what matchit::Router::insert returns
RouterBuilder_build_unchecked ==
    /\ phase = "building"
    /\ phase' = "built"
    /\ panicMsg' = None
    /\ UNCHANGED <<routes, default, req, fut, invoked, formatted, out>>
    /\ UNCHANGED <<methodVars, connVars, partVars>>

\* RouterBuilder::build()
RouterBuilder_build ==
    /\ phase = "building"
    /\ phase' = IF InsertAllOk(routes) THEN "built" ELSE "panicked"
    /\ panicMsg' = IF InsertAllOk(routes) THEN None ELSE Some("insert route")
    /\ UNCHANGED <<routes, default, req, fut, invoked, formatted, out>>
    /\ UNCHANGED <<methodVars, connVars, partVars>>

\* ------------------------------------------------ the requests served
ReqPaths ==
    {<<"/">>,
     <<"/", "x">>, <<"/", "x", "/">>,
     <<"/", "u">>, <<"/", "u", "/">>,
     <<"/", "u", "/", "x">>, <<"/", "u", "/", "x", "/">>,
     <<"/", "u", "/", "%", "4", "1">>,
     <<"/", "u", "/", "%", "F", "F">>,
     <<"/", "u", "/", "%", "F", "F", "/">>,
     <<"/", "u", "/", "%", "4">>,
     <<"/", "1", "/", "x", "/", "u", "/">>,
     <<"/", "1", "/", "x", "/", "u">>,
     <<"/", "1", "/", "%", "4", "1", "/", "%", "F", "F", "/">>,
     <<"/", "1", "/", "%", "F", "1", "/", "%", "F", "F", "/">>,
     <<"/", "4">>}

ReqUris ==
    {Uri(<<>>, p, None) : p \in ReqPaths}
      \cup {Uri(<<>>, p, Some(<<"x", "=", "1">>)) :
                p \in {<<"/", "x">>, <<"/", "x", "/">>, <<"/", "u", "/", "x", "/">>,
                       <<"/", "1", "/", "x", "/", "u">>}}
      \cup {Uri(<<"h", ":", "/", "/", "h">>, p, Some(<<>>)) :
                p \in {<<"/", "x">>, <<"/", "x", "/">>}}

\* the methods the requests are sent with: PUT, which ItemsRouter does not
\* register, on a few paths only
ReqMethods(uri) ==
    IF uri.query = None
          /\ uri.path \in {<<"/", "u", "/", "x">>, <<"/", "u", "/", "x", "/">>,
                           <<"/", "4">>}
    THEN {"GET", "PUT"} ELSE {"GET"}

\* RequestService::call(req)
Call(m, uri) ==
    /\ phase = "built"
    /\ req = None
    /\ LET r == RequestService_call(routes, default, Request(m, uri)) IN
       /\ req' = Some(Request(m, uri))
       /\ fut' = Some(r.fut)
       /\ invoked' = r.invoked
       /\ formatted' = r.formatted
    /\ out' = <<>>
    /\ UNCHANGED <<phase, panicMsg, routes, default>>
    /\ UNCHANGED <<methodVars, connVars, partVars>>

\* a poll whose Route arm hands out the handler's response again when the
\* handler future has already completed
RequestFuture_poll_ready_again(f, inner_ready) ==
    CASE f.kind = "Route" /\ ~f.completed /\ ~inner_ready ->
            [fut |-> [f EXCEPT !.polls = f.polls + 1], ready |-> None]
      [] f.kind = "Route" /\ ~f.completed /\ inner_ready ->
            [fut |-> [f EXCEPT !.polls = f.polls + 1, !.completed = TRUE],
             ready |-> Some(HandlerResponse(Unwrap(f.route), Unwrap(f.request)))]
      [] f.kind = "Route" /\ f.completed ->
            [fut |-> [f EXCEPT !.polls = f.polls + 1, !.repolled = TRUE,
                               !.panicked = TRUE],
             ready |-> Some(HandlerResponse(Unwrap(f.route), Unwrap(f.request)))]
      [] f.kind = "Response" /\ IsSome(f.res) ->
            [fut |-> [f EXCEPT !.res = None, !.polls = f.polls + 1,
                               !.completed = TRUE],
             ready |-> f.res]
      [] f.kind = "Response" /\ f.res = None ->
            [fut |-> [f EXCEPT !.panicked = TRUE], ready |-> None]

\* a poll whose Response arm hands out a copy of the held value and keeps it
RequestFuture_poll_no_take(f, inner_ready) ==
    CASE f.kind = "Route" /\ ~f.completed /\ ~inner_ready ->
            [fut |-> [f EXCEPT !.polls = f.polls + 1], ready |-> None]
      [] f.kind = "Route" /\ ~f.completed /\ inner_ready ->
            [fut |-> [f EXCEPT !.polls = f.polls + 1, !.completed = TRUE],
             ready |-> Some(HandlerResponse(Unwrap(f.route), Unwrap(f.request)))]
      [] f.kind = "Route" /\ f.completed ->
            [fut |-> [f EXCEPT !.polls = f.polls + 1, !.repolled = TRUE,
                               !.panicked = TRUE],
             ready |-> None]
      [] f.kind = "Response" /\ IsSome(f.res) ->
            [fut |-> [f EXCEPT !.polls = f.polls + 1, !.completed = TRUE],
             ready |-> f.res]
      [] f.kind = "Response" /\ f.res = None ->
            [fut |-> [f EXCEPT !.panicked = TRUE], ready |-> None]

\* RequestFuture::poll(cx), where inner_ready tells whether the handler future
\* answers Ready when it is polled: the RequestFuture afterwards and the value
\* handed to the transport (None for Poll::Pending and for a panic).  A handler
\* future is a futures_util Map (Route::new), which panics when it is polled
\* after it returned Ready.
RequestFuture_poll(f, inner_ready) ==
    CASE f.kind = "Route" /\ ~f.completed /\ ~inner_ready ->
            [fut |-> [f EXCEPT !.polls = f.polls + 1], ready |-> None]
      [] f.kind = "Route" /\ ~f.completed /\ inner_ready ->
            [fut |-> [f EXCEPT !.polls = f.polls + 1, !.completed = TRUE],
             ready |-> Some(HandlerResponse(Unwrap(f.route), Unwrap(f.request)))]
      [] f.kind = "Route" /\ f.completed ->
            [fut |-> [f EXCEPT !.polls = f.polls + 1, !.repolled = TRUE,
                               !.panicked = TRUE],
             ready |-> None]
      [] f.kind = "Response" /\ IsSome(f.res) ->
            [fut |-> [f EXCEPT !.res = None, !.polls = f.polls + 1,
                               !.completed = TRUE],
             ready |-> f.res]
      [] f.kind = "Response" /\ f.res = None ->
            [fut |-> [f EXCEPT !.panicked = TRUE], ready |-> None]

\* RequestFuture::poll in the Route state: the handler future answers Pending
PollPending ==
    /\ IsSome(fut)
    /\ LET f == Unwrap(fut)
           p == RequestFuture_poll(f, FALSE)
       IN  /\ f.kind = "Route" /\ ~f.completed /\ ~f.panicked
           /\ f.polls < MaxPolls
           /\ fut' = Some(p.fut)
           /\ out' = out \o p.ready
    /\ UNCHANGED <<phase, panicMsg, routes, default, req, invoked, formatted>>
    /\ UNCHANGED <<methodVars, connVars, partVars>>

\* RequestFuture::poll in the Route state: the handler future answers Ready
PollRouteReady ==
    /\ IsSome(fut)
    /\ LET f == Unwrap(fut)
           p == RequestFuture_poll(f, TRUE)
       IN  /\ f.kind = "Route" /\ ~f.completed /\ ~f.panicked
           /\ fut' = Some(p.fut)
           /\ out' = out \o p.ready
    /\ UNCHANGED <<phase, panicMsg, routes, default, req, invoked, formatted>>
    /\ UNCHANGED <<methodVars, connVars, partVars>>

\* RequestFuture::poll in the Route state after the handler future completed
PollRouteAfterCompletion ==
    /\ IsSome(fut)
    /\ LET f == Unwrap(fut)
           p == RequestFuture_poll(f, TRUE)
       IN  /\ f.kind = "Route" /\ f.completed /\ ~f.panicked
           /\ fut' = Some(p.fut)
           /\ out' = out \o p.ready
    /\ UNCHANGED <<phase, panicMsg, routes, default, req, invoked, formatted>>
    /\ UNCHANGED <<methodVars, connVars, partVars>>

\* RequestFuture::poll in the Response(Some(_)) state
PollResponse ==
    /\ IsSome(fut)
    /\ LET f == Unwrap(fut)
           p == RequestFuture_poll(f, TRUE)
       IN  /\ f.kind = "Response" /\ IsSome(f.res) /\ ~f.panicked
           /\ fut' = Some(p.fut)
           /\ out' = out \o p.ready
    /\ UNCHANGED <<phase, panicMsg, routes, default, req, invoked, formatted>>
    /\ UNCHANGED <<methodVars, connVars, partVars>>

\* RequestFuture::poll in the Response(None) state: "future polled after completion"
PollAfterCompletion ==
    /\ IsSome(fut)
    /\ LET f == Unwrap(fut)
           p == RequestFuture_poll(f, TRUE)
       IN  /\ f.kind = "Response" /\ f.res = None /\ ~f.panicked
           /\ fut' = Some(p.fut)
           /\ out' = out \o p.ready
    /\ UNCHANGED <<phase, panicMsg, routes, default, req, invoked, formatted>>
    /\ UNCHANGED <<methodVars, connVars, partVars>>

\* the transport drops the RequestFuture (finished or not) and takes the next request
Drop ==
    /\ IsSome(fut)
    /\ req' = None /\ fut' = None
    /\ invoked' = <<>> /\ formatted' = <<>> /\ out' = <<>>
    /\ UNCHANGED <<phase, panicMsg, routes, default>>
    /\ UNCHANGED <<methodVars, connVars, partVars>>

\* ------------------------------------------- MethodRouter operations
Op(name, slot, method, route, inv, response) ==
    [name |-> name, slot |-> slot, method |-> method, route |-> route,
     invoked |-> inv, response |-> response]
NoOp == Op("none", 0, None, None, None, None)

FallbackOf(i) == IF i = 1 THEN "f1" ELSE "f2"
HandlerOf(i) == IF i = 1 THEN "h1" ELSE "h2"

MR_new(i) ==
    /\ ~mrPanic
    /\ mr[i] = None
    /\ mr' = [mr EXCEPT ![i] = Some(MethodRouter_new)]
    /\ mop' = Op("new", i, None, None, None, None)
    /\ UNCHANGED mrPanic
    /\ UNCHANGED <<pathVars, connVars, partVars>>

\* router i registers its own handler, so that after a merge the origin of every
\* entry of the merged map is visible
MR_set_method(i, m) ==
    /\ ~mrPanic
    /\ IsSome(mr[i])
    /\ mr' = [mr EXCEPT ![i] = Some(set_method(Unwrap(mr[i]), m, Route(HandlerOf(i))))]
    /\ mop' = Op("set_method", i, Some(m), Some(Route(HandlerOf(i))), None, None)
    /\ UNCHANGED mrPanic
    /\ UNCHANGED <<pathVars, connVars, partVars>>

MR_set_fallback(i) ==
    /\ ~mrPanic
    /\ IsSome(mr[i])
    /\ mr' = [mr EXCEPT ![i] = Some(set_fallback(Unwrap(mr[i]), Route(FallbackOf(i))))]
    /\ mop' = Op("set_fallback", i, None, Some(Route(FallbackOf(i))), None, None)
    /\ UNCHANGED mrPanic
    /\ UNCHANGED <<pathVars, connVars, partVars>>

\* mr[1].merge(mr[2]): the second router is moved into the call
MR_merge ==
    /\ ~mrPanic
    /\ IsSome(mr[1]) /\ IsSome(mr[2])
    /\ LET m == merge(Unwrap(mr[1]), Unwrap(mr[2])) IN
       /\ mr' = [mr EXCEPT ![1] = Some(m.router), ![2] = None]
       /\ mrPanic' = m.panicked
    /\ mop' = Op("merge", 1, None, None, None, None)
    /\ UNCHANGED <<pathVars, connVars, partVars>>

\* a request of method m reaches the Route made from mr[1]
MR_dispatch(m) ==
    /\ ~mrPanic
    /\ IsSome(mr[1])
    /\ LET d == MethodRoute_call(Unwrap(mr[1]), m) IN
       mop' = Op("dispatch", 1, Some(m), None, d.invoked, d.response)
    /\ UNCHANGED <<mr, mrPanic>>
    /\ UNCHANGED <<pathVars, connVars, partVars>>

\* --------------------------------------------- concurrent requests
\* the router the concurrent requests are served by, as build() returned it
ConcRouters ==
    {<<[path |-> PatX, route |-> Route("h1")],
       [path |-> PatUP, route |-> MethodRoute(ItemsRouter)]>>}

\* the requests served concurrently
ConcRequests ==
    {Request("GET", Uri(<<>>, <<"/", "u", "/", "%", "4", "1">>, None)),
     Request("PUT", Uri(<<>>, <<"/", "u", "/", "x">>, None)),
     Request("GET", Uri(<<>>, <<"/", "4">>, None))}

NoConns == [c \in 1..MaxConns |-> None]

\* a call that takes the default route out of the shared router when it uses it
Conn_call_takes_default(c, request) ==
    /\ phase = "built"
    /\ conns[c] = None
    /\ LET r == RequestService_call(routes, default, request) IN
       /\ conns' = [conns EXCEPT ![c] = Some([req |-> request, fut |-> r.fut,
                                             invoked |-> r.invoked,
                                             formatted |-> r.formatted,
                                             out |-> <<>>])]
       /\ default' = IF Len(r.invoked) = 1 /\ Some(r.invoked[1].route) = default
                     THEN None ELSE default
    /\ UNCHANGED <<phase, panicMsg, routes, req, fut, invoked, formatted, out>>
    /\ UNCHANGED <<methodVars, partVars>>

\* Service<&AddrStream>::call followed by RequestService::call(req) on connection c
Conn_call(c, request) ==
    /\ phase = "built"
    /\ conns[c] = None
    /\ LET r == RequestService_call(routes, default, request) IN
       conns' = [conns EXCEPT ![c] = Some([req |-> request, fut |-> r.fut,
                                           invoked |-> r.invoked,
                                           formatted |-> r.formatted,
                                           out |-> <<>>])]
    /\ UNCHANGED <<pathVars, methodVars, partVars>>

\* RequestFuture::poll of the request on connection c, by the transport: it polls
\* a future until the future is Ready and drops it then
Conn_poll(c, inner_ready) ==
    /\ IsSome(conns[c])
    /\ LET k == Unwrap(conns[c])
           p == RequestFuture_poll(k.fut, inner_ready)
       IN  /\ ~k.fut.panicked /\ ~k.fut.completed
           /\ (k.fut.kind = "Route" /\ ~k.fut.completed /\ ~inner_ready)
                 => k.fut.polls < MaxPolls
           /\ conns' = [conns EXCEPT ![c] = Some([k EXCEPT !.fut = p.fut,
                                                          !.out = k.out \o p.ready])]
    /\ UNCHANGED <<pathVars, methodVars, partVars>>

\* the transport drops the RequestFuture of connection c and reads the next request
Conn_drop(c) ==
    /\ IsSome(conns[c])
    /\ conns' = [conns EXCEPT ![c] = None]
    /\ UNCHANGED <<pathVars, methodVars, partVars>>

\* -------------------------------------------- response parts and tuples
\* HeaderMap::insert(k, v): replaces whatever the map holds for k
HeaderMap_insert(headers, k, v) == {h \in headers : h[1] # k} \cup {<<k, v>>}

\* <HeaderName as TryFrom<&str>>::try_from on the names used: Ok(lower-cased name)
\* or Err(InvalidHeaderName)
HeaderName_try_from(k) ==
    CASE k = "x-a" -> Some("x-a")
      [] k = "X-A" -> Some("x-a")
      [] k = "content-type" -> Some("content-type")
      [] k = "x a" -> None

\* <HeaderValue as TryFrom<&str>>::try_from on the values used
HeaderValue_try_from(v) ==
    CASE v = "1" -> Some("1")
      [] v = "2" -> Some("2")
      [] v = "text/html" -> Some("text/html")
      [] v = "a\nb" -> None

\* the elements of a response tuple
StatusPart(code) == [kind |-> "status", code |-> code]
StrPart(text) == [kind |-> "str", text |-> text]
HeadersPart(pairs) == [kind |-> "headers", pairs |-> pairs]
UnitTerminal == [kind |-> "unit"]
ErrTerminal(msg) == [kind |-> "error", msg |-> msg]

\* <http::Error as Reply<DefaultFormatter>>::reply:
\* (StatusCode::INTERNAL_SERVER_ERROR, self.to_string())
ErrorReply(msg) == Response(500, {<<"content-type", "text/plain">>}, <<msg>>)

\* what converting one element yields: the response and Option<Fmt>
Continue(res) == [res |-> res, fmt |-> Some("fmt")]
Stop(res) == [res |-> res, fmt |-> None]

RECURSIVE InsertHeaders(_, _)
\* <[(K, V); N] as ReplyPart>::reply_part
InsertHeaders(pairs, res) ==
    IF Len(pairs) = 0 THEN Continue(res)
    ELSE LET k == HeaderName_try_from(pairs[1][1])
             v == HeaderValue_try_from(pairs[1][2])
         IN  IF k = None THEN Stop(ErrorReply("invalid HTTP header name"))
             ELSE IF v = None THEN Stop(ErrorReply("failed to parse header value"))
             ELSE InsertHeaders(Tail(pairs),
                      [res EXCEPT !.headers =
                          HeaderMap_insert(res.headers, Unwrap(k), Unwrap(v))])

\* ReplyPart::reply_part / ResponsePart::response_part of one leading element
response_part(part, res) ==
    CASE part.kind = "status" -> Continue([res EXCEPT !.status = part.code])
      [] part.kind = "str" ->
            Continue([res EXCEPT !.body = <<part.text>>,
                                 !.headers = HeaderMap_insert(res.headers,
                                                 "content-type", "text/plain")])
      [] part.kind = "headers" -> InsertHeaders(part.pairs, res)

\* IntoResponse::into_response of the trailing element
into_response(r) ==
    CASE r.kind = "unit" -> Continue(Response(200, {}, <<>>))
      [] r.kind = "status" -> Continue(Response(r.code, {}, <<>>))
      [] r.kind = "str" ->
            Continue(Response(200, {<<"content-type", "text/plain">>}, <<r.text>>))
      [] r.kind = "error" ->
            Stop(Response(500, {<<"content-type", "text/plain">>}, <<r.msg>>))

\* respond!(..): whether the conversion goes on after an element returned
\* (res, fmt): it ends, with res as its result, when the element returned no formatter
respond_continues(r) == IsSome(r.fmt)

\* a tuple conversion that applies the trailing element last
ApplyOrder_terminal_last(n) == [i \in 1..(n + 1) |-> i]

\* the order in which into_response applies the elements of (T1, ..., Tn, R):
\* R, which is element n + 1, and then T1 ... Tn
ApplyOrder(n) == <<n + 1>> \o [i \in 1..n |-> i]

RECURSIVE ApplyElements(_, _, _)
\* the respond! lines of into_response, one per element of order; acc is the
\* response so far and the elements applied to get it
ApplyElements(t, order, acc) ==
    IF Len(order) = 0 THEN [res |-> acc.res, fmt |-> Some("fmt"), applied |-> acc.applied]
    ELSE LET i == order[1]
             r == IF i = Len(t.parts) + 1 THEN into_response(t.terminal)
                  ELSE response_part(t.parts[i], acc.res)
             a == [res |-> r.res, fmt |-> r.fmt, applied |-> Append(acc.applied, i)]
         IN  IF respond_continues(r) THEN ApplyElements(t, Tail(order), a) ELSE a

\* <(T1, ..., Tn, R) as IntoResponse>::into_response
Tuple_into_response(t) ==
    ApplyElements(t, ApplyOrder(Len(t.parts)),
                  [res |-> Response(200, {}, <<>>), fmt |-> Some("fmt"), applied |-> <<>>])

\* the tuples handlers return
Parts ==
    {StatusPart(404), StatusPart(201), StrPart("part"),
     HeadersPart(<<<<"x-a", "1">>>>),
     HeadersPart(<<<<"X-A", "2">>, <<"x a", "1">>>>),
     HeadersPart(<<<<"content-type", "text/html">>>>),
     HeadersPart(<<<<"x-a", "a\nb">>>>)}
Terminals ==
    {UnitTerminal, StatusPart(204), StrPart("terminal"), ErrTerminal("handler failed")}

RECURSIVE SeqsUpTo(_, _)
SeqsUpTo(S, n) ==
    IF n = 0 THEN {<<>>}
    ELSE LET shorter == SeqsUpTo(S, n - 1)
         IN  shorter \cup {Append(q, x) : q \in shorter, x \in S}

Tuples == {[parts |-> ps, terminal |-> r] : ps \in SeqsUpTo(Parts, MaxParts), r \in Terminals}

UnitTuple == [parts |-> <<>>, terminal |-> UnitTerminal]

\* a handler's return value is converted into the response
IntoResponse ==
    /\ converted = None
    /\ converted' = Some(Tuple_into_response(tuple))
    /\ UNCHANGED tuple
    /\ UNCHANGED <<pathVars, methodVars, connVars>>

NoMethodRouters == [i \in 1..2 |-> None]

Init ==
    /\ phase = "building"
    /\ panicMsg = None
    /\ routes = <<>>
    /\ default = None
    /\ req = None /\ fut = None
    /\ invoked = <<>> /\ formatted = <<>> /\ out = <<>>
    /\ mr = NoMethodRouters
    /\ mrPanic = FALSE
    /\ mop = NoOp
    /\ conns = NoConns
    /\ tuple = UnitTuple
    /\ converted = None

Next ==
    \/ \E p \in Patterns, h \in Handlers : RouterBuilder_route(p, Route(h))
    \/ \E p \in MethodPatterns : RouterBuilder_route(p, MethodRoute(ItemsRouter))
    \/ RouterBuilder_default_route(DefaultHandler)
    \/ \E o \in OtherBuilders : RouterBuilder_merge(o)
    \/ RouterBuilder_build
    \/ \E u \in ReqUris : \E m \in ReqMethods(u) : Call(m, u)
    \/ PollPending
    \/ PollRouteReady
    \/ PollRouteAfterCompletion
    \/ PollResponse
    \/ PollAfterCompletion
    \/ Drop

Spec == Init /\ [][Next]_vars

MethodNext ==
    \/ \E i \in 1..2 : MR_new(i)
    \/ \E i \in 1..2, m \in Methods : MR_set_method(i, m)
    \/ \E i \in 1..2 : MR_set_fallback(i)
    \/ MR_merge
    \/ \E m \in Methods : MR_dispatch(m)

MethodSpec == Init /\ [][MethodNext]_vars

\* a built router shared by the connections of a server
ConcInit ==
    /\ phase = "built"
    /\ panicMsg = None
    /\ routes \in ConcRouters
    /\ default \in {None, Some(Route(DefaultHandler))}
    /\ req = None /\ fut = None
    /\ invoked = <<>> /\ formatted = <<>> /\ out = <<>>
    /\ mr = NoMethodRouters
    /\ mrPanic = FALSE
    /\ mop = NoOp
    /\ conns = NoConns
    /\ tuple = UnitTuple
    /\ converted = None

ConcNext ==
    \/ \E c \in 1..MaxConns, r \in ConcRequests : Conn_call(c, r)
    \/ \E c \in 1..MaxConns, ready \in BOOLEAN : Conn_poll(c, ready)
    \/ \E c \in 1..MaxConns : Conn_drop(c)

ConcSpec == ConcInit /\ [][ConcNext]_vars

\* a handler returned a tuple
PartsInit ==
    /\ phase = "building"
    /\ panicMsg = None
    /\ routes = <<>>
    /\ default = None
    /\ req = None /\ fut = None
    /\ invoked = <<>> /\ formatted = <<>> /\ out = <<>>
    /\ mr = NoMethodRouters
    /\ mrPanic = FALSE
    /\ mop = NoOp
    /\ conns = NoConns
    /\ tuple \in Tuples
    /\ converted = None

PartsNext == IntoResponse

PartsSpec == PartsInit /\ [][PartsNext]_vars

\* ------------------------------------------------------------ claims
\* the request in service, and what call returned for it
TheReq == Unwrap(req)
TheFut == Unwrap(fut)
ThePath == TheReq.uri.path
Served == phase = "built" /\ IsSome(req) /\ IsSome(fut)

\* the registered patterns the path stands in each relation to
ExactHits(path) == {i \in 1..Len(routes) : Matches(routes[i].path, path)}
EndsWithSlash(path) == Len(path) > 1 /\ path[Len(path)] = "/"
WithoutSlash(path) == SubSeq(path, 1, Len(path) - 1)
IsExact(path) == ExactHits(path) # {}
IsExtraSlash(path) ==
    ~IsExact(path) /\ EndsWithSlash(path) /\ ExactHits(WithoutSlash(path)) # {}
IsMissingSlash(path) ==
    ~IsExact(path) /\ ~IsExtraSlash(path) /\ ExactHits(path \o <<"/">>) # {}

RegisteredRoutes == {routes[i].route : i \in 1..Len(routes)}

\* the response the RequestFuture holds, or has handed out, in the Response state
ImmediateResponse ==
    IF IsSome(TheFut.res) THEN Unwrap(TheFut.res) ELSE out[1]

\* expected percent-decoding of every raw capture the requests contain:
\* Some(bytes of the decoded text), or None where the bytes are not UTF-8
OracleDecode(raw) ==
    CASE raw = <<"x">> -> Some(<<120>>)
      [] raw = <<"u">> -> Some(<<117>>)
      [] raw = <<"1">> -> Some(<<49>>)
      [] raw = <<"%", "4", "1">> -> Some(<<65>>)
      [] raw = <<"%", "4">> -> Some(<<37, 52>>)
      [] raw = <<"%", "F", "F">> -> None
      [] raw = <<"%", "F", "1">> -> None

AllDecodable(caps) == \A k \in 1..Len(caps) : IsSome(OracleDecode(caps[k][2]))

\* C1: every request handed to RequestService::call gets exactly one outcome:
\* either one Route (a registered one or the default) is invoked once and its
\* future is what call returns, with no error formatted; or no Route is invoked
\* and one RouteError is formatted into the response call returns. Whatever a
\* poll hands to the transport is a response.
C1_ExactlyOneOutcome ==
    Served =>
        \/ /\ TheFut.kind = "Route"
           /\ Len(invoked) = 1 /\ Len(formatted) = 0
           /\ TheFut.route = Some(invoked[1].route)
           /\ TheFut.request = Some(invoked[1].request)
           /\ invoked[1].route \in RegisteredRoutes \cup OptSet(default)
           /\ \A k \in 1..Len(out) :
                 out[k] = HandlerResponse(invoked[1].route, invoked[1].request)
        \/ /\ TheFut.kind = "Response"
           /\ Len(invoked) = 0 /\ Len(formatted) = 1
           /\ formatted[1].kind \in {"NotFound", "Expected", "Path"}
           /\ ImmediateResponse.body = RouteError_to_string(formatted[1])
           /\ Len(out) <= 1

\* C1 witness: a bad parameter encoding was answered by a response that the
\* transport has received
C1_Witness ==
    /\ Served
    /\ TheFut.kind = "Response"
    /\ Len(formatted) = 1 /\ formatted[1].kind = "Path"
    /\ Len(out) = 1

\* C2: an exact match never yields a redirect error nor the default route; a
\* trailing-slash near-miss (extra before missing) yields the Expected error and
\* invokes no Route, the default included; only a path that is neither reaches
\* the default route or NotFound.
C2_LookupPrecedence ==
    Served =>
        /\ IsExact(ThePath) =>
              /\ \A k \in 1..Len(formatted) : formatted[k].kind = "Path"
              /\ \A k \in 1..Len(invoked) :
                    invoked[k].route \in {routes[i].route : i \in ExactHits(ThePath)}
        /\ IsExtraSlash(ThePath) =>
              /\ invoked = <<>>
              /\ Len(formatted) = 1 /\ formatted[1].kind = "Expected"
              /\ Unwrap(formatted[1].uri).path = WithoutSlash(ThePath)
        /\ IsMissingSlash(ThePath) =>
              /\ invoked = <<>>
              /\ Len(formatted) = 1 /\ formatted[1].kind = "Expected"
              /\ Unwrap(formatted[1].uri).path = ThePath \o <<"/">>
        /\ (~IsExact(ThePath) /\ ~IsExtraSlash(ThePath) /\ ~IsMissingSlash(ThePath)) =>
              IF IsSome(default)
              THEN Len(invoked) = 1 /\ invoked[1].route = Unwrap(default)
                   /\ formatted = <<>>
              ELSE invoked = <<>> /\ Len(formatted) = 1
                   /\ formatted[1].kind = "NotFound"

\* C2 witness: a near-miss was redirected although a default route is configured
C2_Witness ==
    /\ Served
    /\ IsSome(default)
    /\ IsExtraSlash(ThePath)
    /\ Len(formatted) = 1 /\ formatted[1].kind = "Expected"

\* C3: when the path matches a registered pattern and every capture decodes, the
\* handler registered with that pattern is the one Route invoked, and the request
\* it receives carries a RouteParams map whose keys are the pattern's parameter
\* names and whose values are the percent-decoded captures.
C3_MatchedHandlerGetsDecodedParams ==
    Served =>
        \A i \in ExactHits(ThePath) :
            LET caps == Captures(routes[i].path, ThePath) IN
            AllDecodable(caps) =>
                /\ Len(invoked) = 1
                /\ invoked[1].route = routes[i].route
                /\ TheFut.kind = "Route" /\ TheFut.route = Some(routes[i].route)
                /\ IsSome(invoked[1].request.params)
                /\ LET map == Unwrap(invoked[1].request.params) IN
                   /\ DOMAIN map = ParamNames(routes[i].path)
                   /\ \A k \in 1..Len(caps) :
                         map[caps[k][1]] = Unwrap(OracleDecode(caps[k][2]))
                /\ invoked[1].request.uri = TheReq.uri

\* C3 witness: "/u/%41" reached the handler of "/u/:p" with p = "A"
C3_Witness ==
    /\ Served
    /\ ThePath = <<"/", "u", "/", "%", "4", "1">>
    /\ Len(invoked) = 1
    /\ invoked[1].request.params = Some([k \in {"p"} |-> <<65>>])

\* C4: when the path matches a registered pattern and some capture fails to
\* decode, the request is answered with the InvalidParamEncoding error naming
\* a failing key, and no Route is invoked at all (neither the matched one nor
\* the default), so no handler sees any RouteParams map of this request.
C4_DecodingIsAtomic ==
    Served =>
        \A i \in ExactHits(ThePath) :
            LET caps == Captures(routes[i].path, ThePath) IN
            ~AllDecodable(caps) =>
                /\ invoked = <<>>
                /\ TheFut.kind = "Response"
                /\ Len(formatted) = 1 /\ formatted[1].kind = "Path"
                /\ \E k \in 1..Len(caps) :
                      /\ formatted[1].key = Some(caps[k][1])
                      /\ OracleDecode(caps[k][2]) = None

\* C4 witness: "/1/%41/%FF/" matched "/1/:a/:b/" with a default route configured;
\* a decodes, b does not
C4_Witness ==
    /\ Served
    /\ IsSome(default)
    /\ ThePath = <<"/", "1", "/", "%", "4", "1", "/", "%", "F", "F", "/">>
    /\ IsExact(ThePath)
    /\ Len(formatted) = 1 /\ formatted[1].key = Some("b")

HeaderOf(res, name) == {h[2] : h \in {x \in res.headers : x[1] = name}}

\* C5: a request whose path is a trailing-slash near-miss of a registered pattern
\* is answered 308 with a Location that is the request URI with one trailing '/'
\* removed from, respectively appended to, the path and the query unchanged.
C5_TrailingSlashGets308 ==
    Served =>
        LET corrected ==
                IF IsExtraSlash(ThePath)
                THEN [TheReq.uri EXCEPT !.path = WithoutSlash(ThePath)]
                ELSE [TheReq.uri EXCEPT !.path = ThePath \o <<"/">>]
        IN  (IsExtraSlash(ThePath) \/ IsMissingSlash(ThePath)) =>
                /\ TheFut.kind = "Response"
                /\ ImmediateResponse.status = 308
                /\ HeaderOf(ImmediateResponse, "location") = {UriDisplay(corrected)}

\* the method names in byte-wise lexicographic order
SortedMethodNames == <<"DELETE", "GET", "HEAD", "POST", "PUT">>

\* the Allow value expected for a set of registered methods
ExpectedAllow(ms) ==
    LET names == SelectSeq(SortedMethodNames, LAMBDA m : m \in ms)
    IN  Join([i \in 1..Len(names) |-> MethodStr(names[i])], <<44, 32>>)

\* the bytes of "GET, POST"
GetPostBytes == <<71, 69, 84, 44, 32, 80, 79, 83, 84>>

\* C6: whenever a method router has no fallback Route, its stored Allow value is
\* the sorted, duplicate-free, ", "-joined list of exactly the methods in its
\* handler map (empty when the map is empty).
C6_AllowHeaderMatchesHandlers ==
    \A i \in 1..2 :
        (IsSome(mr[i]) /\ Unwrap(mr[i]).fallback.kind = "None") =>
            LET r == Unwrap(mr[i])
                allow == Unwrap(r.fallback.allow_header)
            IN  /\ allow = ExpectedAllow(DOMAIN r.handlers)
                /\ (DOMAIN r.handlers = {}) => allow = <<>>
                /\ (DOMAIN r.handlers = {"GET", "POST"}) => allow = GetPostBytes

\* C6 witness: a merge left a three-method router without a fallback Route
C6_Witness ==
    /\ mop.name = "merge" /\ ~mrPanic
    /\ IsSome(mr[1])
    /\ Unwrap(mr[1]).fallback.kind = "None"
    /\ DOMAIN Unwrap(mr[1]).handlers = {"GET", "POST", "PUT"}

\* C7: a request whose method is not registered, sent to a method router without
\* a fallback Route, gets 405 with Allow the sorted ", "-joined registered methods
\* ("GET, POST" for {GET, POST} and PUT), and no handler is invoked.
C7_MissGets405WithAllow ==
    (mop.name = "dispatch" /\ IsSome(mr[1])) =>
        LET r == Unwrap(mr[1])
            m == Unwrap(mop.method)
        IN  (r.fallback.kind = "None" /\ m \notin DOMAIN r.handlers) =>
                /\ mop.invoked = None
                /\ IsSome(mop.response)
                /\ Unwrap(mop.response).status = 405
                /\ HeaderOf(Unwrap(mop.response), "allow")
                       = {ExpectedAllow(DOMAIN r.handlers)}
                /\ (DOMAIN r.handlers = {"GET", "POST"} /\ m = "PUT") =>
                       HeaderOf(Unwrap(mop.response), "allow") = {GetPostBytes}

\* C7 witness: PUT was sent to a router of exactly GET and POST
C7_Witness ==
    /\ mop.name = "dispatch" /\ mop.method = Some("PUT")
    /\ IsSome(mr[1])
    /\ Unwrap(mr[1]).fallback.kind = "None"
    /\ DOMAIN Unwrap(mr[1]).handlers = {"GET", "POST"}
    /\ IsSome(mop.response)

\* C8: a dispatch has exactly one target: the registered method's Route if the
\* method is registered (the fallback is not invoked even when set); else the
\* fallback Route if set, with no 405; else the 405 reply carrying the stored
\* Allow value.
C8_DispatchSelectsOneTarget ==
    (mop.name = "dispatch" /\ IsSome(mr[1])) =>
        LET r == Unwrap(mr[1])
            m == Unwrap(mop.method)
        IN  IF m \in DOMAIN r.handlers
            THEN mop.invoked = Some(r.handlers[m]) /\ mop.response = None
            ELSE IF r.fallback.kind = "Route"
            THEN mop.invoked = r.fallback.route /\ mop.response = None
            ELSE /\ mop.invoked = None
                 /\ IsSome(mop.response)
                 /\ Unwrap(mop.response).status = 405
                 /\ HeaderOf(Unwrap(mop.response), "allow")
                        = {Unwrap(r.fallback.allow_header)}

\* C8 witness: a registered method was dispatched on a router that has a fallback
C8_Witness ==
    /\ mop.name = "dispatch"
    /\ IsSome(mr[1])
    /\ Unwrap(mr[1]).fallback.kind = "Route"
    /\ Unwrap(mop.method) \in DOMAIN Unwrap(mr[1]).handlers
    /\ mop.invoked = Some(Unwrap(mr[1]).handlers[Unwrap(mop.method)])

\* C9: registration is last-writer-wins and never fails: set_method binds the
\* given Route to its key and leaves every other key as it was; merge binds every
\* key of the other router to the other's Route, keeps the receiver's Routes on
\* the remaining keys, and adds no key that neither side had.
C9_LastWriterWins ==
    [][/\ mop'.name = "set_method" =>
            LET pre == Unwrap(mr[mop'.slot]).handlers
                post == Unwrap(mr'[mop'.slot]).handlers
                m == Unwrap(mop'.method)
            IN  /\ ~mrPanic'
                /\ DOMAIN post = (DOMAIN pre) \cup {m}
                /\ post[m] = Unwrap(mop'.route)
                /\ \A k \in (DOMAIN pre) \ {m} : post[k] = pre[k]
       /\ (mop'.name = "merge" /\ IsSome(mr[2])) =>
            LET self == Unwrap(mr[1]).handlers
                other == Unwrap(mr[2]).handlers
                post == Unwrap(mr'[1]).handlers
            IN  /\ DOMAIN post = (DOMAIN self) \cup (DOMAIN other)
                /\ \A k \in DOMAIN other : post[k] = other[k]
                /\ \A k \in (DOMAIN self) \ (DOMAIN other) : post[k] = self[k]
      ]_vars

\* C9 witness: after a merge the receiver holds Routes of both origins
C9_Witness ==
    /\ mop.name = "merge"
    /\ IsSome(mr[1])
    /\ \E k1, k2 \in DOMAIN Unwrap(mr[1]).handlers :
          /\ Unwrap(mr[1]).handlers[k1] = Route("h1")
          /\ Unwrap(mr[1]).handlers[k2] = Route("h2")

\* C10: merge panics exactly when both routers have a fallback Route; when one
\* side has one, the merged router has that one; when neither has, the merged
\* router has none and answers a method miss with 405.
C10_MergeFallback ==
    [][(mop'.name = "merge" /\ IsSome(mr[2])) =>
            LET self == Unwrap(mr[1])
                other == Unwrap(mr[2])
                post == Unwrap(mr'[1])
            IN  /\ mrPanic' <=>
                      (self.fallback.kind = "Route" /\ other.fallback.kind = "Route")
                /\ (self.fallback.kind = "Route" /\ other.fallback.kind = "None") =>
                      post.fallback = self.fallback
                /\ (self.fallback.kind = "None" /\ other.fallback.kind = "Route") =>
                      post.fallback = other.fallback
                /\ (self.fallback.kind = "None" /\ other.fallback.kind = "None") =>
                      /\ post.fallback.kind = "None"
                      /\ \A m \in Methods \ DOMAIN post.handlers :
                            LET d == MethodRoute_call(post, m) IN
                            d.invoked = None /\ Unwrap(d.response).status = 405
      ]_vars

\* C10 witness: the receiver adopted the other router's fallback Route
C10_Witness ==
    /\ mop.name = "merge" /\ ~mrPanic
    /\ IsSome(mr[1])
    /\ Unwrap(mr[1]).fallback = FallbackRoute(Route("f2"))

\* the path matches no registered pattern and is no trailing-slash near-miss
IsUnmatched(path) == ~IsExact(path) /\ ~IsExtraSlash(path) /\ ~IsMissingSlash(path)

\* C11: for a path that matches no registered pattern and is no trailing-slash
\* near-miss, the configured default Route is the one Route invoked when there
\* is one, and otherwise the response is the formatted RouteError::NotFound; for
\* a path that matches a registered pattern the default Route is not invoked.
C11_DefaultOrNotFound ==
    Served =>
        /\ IsUnmatched(ThePath) =>
              IF IsSome(default)
              THEN /\ TheFut.kind = "Route" /\ TheFut.route = default
                   /\ Len(invoked) = 1 /\ invoked[1].route = Unwrap(default)
                   /\ formatted = <<>>
              ELSE /\ TheFut.kind = "Response"
                   /\ invoked = <<>>
                   /\ formatted = <<NotFound>>
                   /\ ImmediateResponse.body = <<"not found">>
        /\ IsExact(ThePath) =>
              \A k \in 1..Len(invoked) : invoked[k].route.fn # DefaultHandler

\* C11 witness: a router with routes and a default route served a path that no
\* pattern matches, and the default route was invoked
C11_Witness ==
    /\ Served
    /\ Len(routes) = MaxRoutes
    /\ IsSome(default)
    /\ IsUnmatched(ThePath)
    /\ Len(invoked) = 1 /\ invoked[1].route = Route(DefaultHandler)

\* RequestExt::params(&self): the RouteParams attached to the request; None
\* stands for the missing extension, on which the accessor panics
RequestExt_params(request) == request.params

\* C12: the request the default Route is invoked with has no RouteParams and is
\* the original request in method and URI (the router adds the remote address
\* extension to every request); the request a matched Route is invoked with has
\* RouteParams attached and the original method and URI as well.
C12_DefaultGetsNoParams ==
    Served =>
        \A k \in 1..Len(invoked) :
            LET d == invoked[k] IN
            /\ d.request.method = TheReq.method
            /\ d.request.uri = TheReq.uri
            /\ (IsSome(default) /\ d.route = Unwrap(default)) =>
                  /\ RequestExt_params(d.request) = None
                  /\ d.request = [TheReq EXCEPT !.remote_addr = Some(RemoteAddr)]
            /\ d.route \in RegisteredRoutes =>
                  IsSome(RequestExt_params(d.request))

\* C12 witness: the default Route was invoked with a PUT request, without
\* RouteParams, by a router that has routes
C12_Witness ==
    /\ Served
    /\ Len(routes) > 0
    /\ Len(invoked) = 1
    /\ invoked[1].route = Route(DefaultHandler)
    /\ invoked[1].request.method = "PUT"
    /\ RequestExt_params(invoked[1].request) = None

\* a request whose path matches a pattern bound to a method router without a
\* fallback Route, and whose method that router does not register, is answered by
\* the method router's 405 with the Allow list of its methods; neither the default
\* Route nor NotFound comes into play
MethodMissGets405 ==
    Served =>
        \A i \in ExactHits(ThePath) :
            (/\ routes[i].route.fn = "methods"
             /\ AllDecodable(Captures(routes[i].path, ThePath))
             /\ routes[i].route.router.fallback.kind = "None"
             /\ TheReq.method \notin DOMAIN routes[i].route.router.handlers) =>
                LET answer == HandlerResponse(invoked[1].route, invoked[1].request) IN
                /\ TheFut.kind = "Route"
                /\ Len(invoked) = 1 /\ invoked[1].route = routes[i].route
                /\ formatted = <<>>
                /\ answer.status = 405
                /\ HeaderOf(answer, "allow")
                       = {ExpectedAllow(DOMAIN routes[i].route.router.handlers)}
                /\ \A k \in 1..Len(out) : out[k] = answer

\* C13: path matching is resolved before method matching: a method the matched
\* pattern's method router does not register gets that router's 405 with its
\* Allow list, never the default Route nor NotFound, and a trailing-slash
\* near-miss is answered 308 whatever the request method is.
C13_PathBeforeMethod ==
    /\ MethodMissGets405
    /\ Served =>
          ((IsExtraSlash(ThePath) \/ IsMissingSlash(ThePath)) =>
              /\ TheFut.kind = "Response"
              /\ invoked = <<>>
              /\ ImmediateResponse.status = 308)

\* a step of the RequestFuture of one request, taken in the Route state
RouteStep == IsSome(fut) /\ IsSome(fut') /\ fut' # fut /\ Unwrap(fut).kind = "Route"

\* what every poll in the Route state does while the handler future has not
\* completed: the poll is forwarded; a pending handler future leaves the unit as
\* it is and hands out nothing; a completing one hands out the handler's response
RoutePollForwards ==
    LET f == Unwrap(fut)
        g == Unwrap(fut')
    IN  /\ g.kind = "Route" /\ g.route = f.route /\ g.request = f.request
        /\ ~f.completed =>
              /\ g.polls = f.polls + 1
              /\ ~g.panicked
              /\ IF g.completed
                 THEN out' = <<HandlerResponse(Unwrap(f.route), Unwrap(f.request))>>
                 ELSE out' = <<>> /\ out = <<>>

\* C14: a poll in the Route state is forwarded to the handler future; while that
\* is pending the unit stays in the Route state and hands out nothing; when it
\* completes the unit hands out the handler's response, once, and from then on
\* the unit does not poll the completed handler future again.
C14_RouteYieldsOnceNoRepoll ==
    [][RouteStep =>
          /\ RoutePollForwards
          /\ Unwrap(fut).completed =>
                /\ Unwrap(fut').polls = Unwrap(fut).polls
                /\ ~Unwrap(fut').repolled
                /\ out' = out
      ]_vars

\* C14, amended: as above up to the completion; the unit has no completed state
\* of its own in the Route arm, so a poll after the completion is forwarded to
\* the completed handler future once more, which panics; no second response is
\* handed out.
C14_RouteYieldsOnce ==
    [][RouteStep =>
          /\ RoutePollForwards
          /\ Unwrap(fut).completed =>
                /\ Unwrap(fut').polls = Unwrap(fut).polls + 1
                /\ Unwrap(fut').repolled /\ Unwrap(fut').panicked
                /\ out' = out /\ Len(out) = 1
      ]_vars

\* C14 witness: a handler future was pending, then completed, and was polled
\* again through the unit; the transport holds the one response
C14_Witness ==
    /\ Served
    /\ TheFut.kind = "Route" /\ TheFut.completed
    /\ TheFut.polls = 3
    /\ TheFut.repolled /\ TheFut.panicked
    /\ out = <<HandlerResponse(invoked[1].route, invoked[1].request)>>

\* a step of the RequestFuture of one request, taken in the Response state
ResponseStep ==
    IsSome(fut) /\ IsSome(fut') /\ fut' # fut /\ Unwrap(fut).kind = "Response"

\* C15: in the Response(Some(v)) state the first poll hands out v (no poll has
\* answered Pending before it) and leaves Response(None); a poll of a completed
\* unit panics and hands out nothing more.
C15_ResponseYieldsThenPanics ==
    [][/\ ResponseStep =>
            LET f == Unwrap(fut)
                g == Unwrap(fut')
            IN  /\ g.kind = "Response"
                /\ IF IsSome(f.res)
                   THEN /\ f.polls = 0 /\ out = <<>>
                        /\ out' = <<Unwrap(f.res)>>
                        /\ g.res = None /\ g.completed /\ ~g.panicked
                   ELSE /\ f.completed
                        /\ g.panicked
                        /\ out' = out /\ Len(out) = 1
       /\ (IsSome(fut) /\ IsSome(fut') /\ fut' # fut /\ Unwrap(fut).completed) =>
            /\ Unwrap(fut').panicked
            /\ out' = out /\ Len(out) = 1
      ]_vars

\* C15 witness: the formatted error was handed out by the first poll and the
\* second poll panicked
C15_Witness ==
    /\ Served
    /\ TheFut.kind = "Response" /\ TheFut.res = None
    /\ TheFut.polls = 1
    /\ TheFut.panicked
    /\ out = <<format_error(formatted[1])>>

\* C16: with the default formatter a routing error is answered with the status of
\* its kind: NotFound with 404, a path parameter that fails to decode with a
\* 4xx status, a trailing-slash mismatch with 308; none is answered with 500.
C16_RoutingErrorStatuses ==
    (Served /\ TheFut.kind = "Response" /\ Len(formatted) = 1) =>
            LET status == ImmediateResponse.status IN
            /\ formatted[1].kind = "NotFound" => status = 404
            /\ formatted[1].kind = "Path" => status \in 400..499
            /\ formatted[1].kind = "Expected" => status = 308
            /\ status = RouteError_reply(formatted[1]).status
            /\ status # 500

\* the request of connection c has the outcome it has when it is served alone by
\* the router rs with the default route dflt
OutcomeAsAlone(k, rs, dflt) ==
    LET alone == RequestService_call(rs, dflt, k.req) IN
    /\ k.invoked = alone.invoked
    /\ k.formatted = alone.formatted
    /\ k.fut.kind = alone.fut.kind
    /\ k.fut.route = alone.fut.route
    /\ k.fut.request = alone.fut.request
    /\ Len(k.out) <= 1
    /\ \A j \in 1..Len(k.out) :
          k.out[j] = IF alone.fut.kind = "Route"
                     THEN HandlerResponse(Unwrap(alone.fut.route),
                                          Unwrap(alone.fut.request))
                     ELSE Unwrap(alone.fut.res)

\* C17: once built, the router (its patterns and Routes, the method maps inside
\* them, its default Route) is changed by no call, poll or drop of any of the
\* requests served concurrently, and every request in service has the selected
\* Route, parameters or error response it has when served alone.
C17_RouterFrozen ==
    [][phase = "built" =>
          /\ phase' = "built"
          /\ routes' = routes
          /\ default' = default
          /\ \A c \in 1..MaxConns :
                IsSome(conns'[c]) => OutcomeAsAlone(Unwrap(conns'[c]), routes, default)
      ]_vars

\* C17 witness: one connection's PUT was answered 405 by the method router while
\* the default Route's handler future for another connection's request is pending
C17_Witness ==
    /\ phase = "built"
    /\ IsSome(default)
    /\ \E c, d \in 1..MaxConns :
          /\ c # d
          /\ IsSome(conns[c]) /\ IsSome(conns[d])
          /\ Unwrap(conns[c]).req.method = "PUT"
          /\ Len(Unwrap(conns[c]).out) = 1
          /\ Unwrap(conns[c]).out[1].status = 405
          /\ Unwrap(conns[d]).invoked = <<[route |-> Unwrap(default),
                request |-> [Unwrap(conns[d]).req EXCEPT !.remote_addr = Some(RemoteAddr)]]>>
          /\ Unwrap(conns[d]).fut.polls = 1
          /\ ~Unwrap(conns[d]).fut.completed

\* C18: registering never fails, whatever has been registered before (route and
\* the route-adding part of merge only push onto the list); build() panics with
\* "insert route" exactly when two registered patterns conflict, and returns a
\* router otherwise; once a router is built, no call or poll raises that panic.
C18_ConflictFailsAtBuildOnly ==
    [][/\ (phase = "building" /\ routes' # routes) =>
            /\ phase' = "building" /\ panicMsg' = None
            /\ Len(routes') > Len(routes)
            /\ SubSeq(routes', 1, Len(routes)) = routes
       /\ (phase = "building" /\ phase' = "built") =>
            /\ InsertAllOk(routes) /\ routes' = routes /\ panicMsg' = None
       /\ (panicMsg = None /\ panicMsg' = Some("insert route")) =>
            /\ phase = "building" /\ phase' = "panicked"
            /\ ~InsertAllOk(routes) /\ routes' = routes
       /\ (phase = "building" /\ phase' = "panicked" /\ InsertAllOk(routes)) =>
            panicMsg' = Some("cannot merge routers with conflicting default routes")
       /\ phase = "built" =>
            /\ phase' = "built" /\ panicMsg' = None
            /\ InsertAllOk(routes') /\ routes' = routes
      ]_vars

\* C18 witness: "/u/:p" and "/u/:q" were both registered without failure and
\* build() panicked
C18_Witness ==
    /\ phase = "panicked"
    /\ panicMsg = Some("insert route")
    /\ Len(routes) = 2
    /\ routes[1].path = PatUP /\ routes[2].path = PatUQ

\* the tuple converted and the result of its conversion
TheParts == tuple.parts
TheTerminal == tuple.terminal
TheResult == Unwrap(converted)

\* the pairs of a headers element that fail to convert, and the message of the
\* error of the first of them (the name is converted before the value)
BadName(pair) == pair[1] = "x a"
BadValue(pair) == pair[2] = "a\nb"
PartFails(part) ==
    part.kind = "headers"
        /\ \E j \in 1..Len(part.pairs) : BadName(part.pairs[j]) \/ BadValue(part.pairs[j])
FailureMessage(part) ==
    LET j == CHOOSE i \in 1..Len(part.pairs) :
                 /\ BadName(part.pairs[i]) \/ BadValue(part.pairs[i])
                 /\ \A h \in 1..(i - 1) :
                       ~BadName(part.pairs[h]) /\ ~BadValue(part.pairs[h])
    IN  IF BadName(part.pairs[j]) THEN "invalid HTTP header name"
        ELSE "failed to parse header value"

\* the aspects of a response, what each element writes of them, and what the
\* terminal element leaves in them (an absent header is None)
Aspects == {"status", "body", "content-type", "x-a"}
PairsNamed(part, names) == {j \in 1..Len(part.pairs) : part.pairs[j][1] \in names}
NamesOf(aspect) == IF aspect = "x-a" THEN {"x-a", "X-A"} ELSE {aspect}
Writes(part, aspect) ==
    CASE part.kind = "status" -> aspect = "status"
      [] part.kind = "str" -> aspect \in {"body", "content-type"}
      [] part.kind = "headers" -> PairsNamed(part, NamesOf(aspect)) # {}
Written(part, aspect) ==
    CASE part.kind = "status" -> part.code
      [] part.kind = "str" -> IF aspect = "body" THEN <<part.text>> ELSE Some("text/plain")
      [] part.kind = "headers" ->
            LET js == PairsNamed(part, NamesOf(aspect))
                last == CHOOSE j \in js : \A i \in js : i <= j
            IN  Some(part.pairs[last][2])
TerminalLeaves(r, aspect) ==
    CASE aspect = "status" -> IF r.kind = "status" THEN r.code ELSE 200
      [] aspect = "body" -> IF r.kind = "str" THEN <<r.text>> ELSE <<>>
      [] aspect = "content-type" -> IF r.kind = "str" THEN Some("text/plain") ELSE None
      [] aspect = "x-a" -> None
AspectOf(res, aspect) ==
    CASE aspect = "status" -> res.status
      [] aspect = "body" -> res.body
      [] OTHER -> IF HeaderOf(res, aspect) = {} THEN None
                  ELSE Some(CHOOSE v \in HeaderOf(res, aspect) : TRUE)

\* C19: the conversion of (part_1, ..., part_n, terminal) applies the terminal
\* first and then the parts from left to right, so every aspect of the result is
\* what the last part writing it wrote, or what the terminal left where no part
\* writes it; when a part fails, the result is the error response of that
\* failure and no part after it is applied.
C19_TerminalThenPartsInOrder ==
    IsSome(converted) =>
        LET n == Len(TheParts)
            failing == {i \in 1..n : PartFails(TheParts[i])}
        IN  IF TheTerminal.kind = "error"
            THEN TheResult.applied = <<n + 1>> /\ TheResult.fmt = None
            ELSE IF failing = {}
            THEN /\ TheResult.applied = <<n + 1>> \o [i \in 1..n |-> i]
                 /\ IsSome(TheResult.fmt)
                 /\ \A a \in Aspects :
                       LET writers == {i \in 1..n : Writes(TheParts[i], a)} IN
                       AspectOf(TheResult.res, a) =
                           IF writers = {} THEN TerminalLeaves(TheTerminal, a)
                           ELSE Written(TheParts[CHOOSE i \in writers :
                                                    \A j \in writers : j <= i], a)
                 /\ \A h \in TheResult.res.headers : h[1] \in {"content-type", "x-a"}
            ELSE LET k == CHOOSE i \in failing : \A j \in failing : i <= j IN
                 /\ TheResult.applied = <<n + 1>> \o [i \in 1..k |-> i]
                 /\ TheResult.fmt = None
                 /\ TheResult.res = Response(500, {<<"content-type", "text/plain">>},
                                             <<FailureMessage(TheParts[k])>>)

\* C19 witness: ([("X-A", "2"), ("x a", "1")], StatusCode(404), "terminal") was
\* converted: the header name fails, the status part after it is not applied
C19_Witness ==
    /\ IsSome(converted)
    /\ TheParts = <<HeadersPart(<<<<"X-A", "2">>, <<"x a", "1">>>>), StatusPart(404)>>
    /\ TheTerminal = StrPart("terminal")
    /\ TheResult.applied = <<3, 1>>
    /\ TheResult.res.status = 500

HasFallbackRoute(o) == IsSome(o) /\ Unwrap(o).fallback.kind = "Route"

\* C20: a method router that has a fallback Route keeps having one through every
\* set_method, set_fallback and merge that returns (as the receiver of the merge,
\* and as the router merged into another one, which adopts the fallback); a
\* dispatch on it invokes a Route and never builds the 405 reply, and there is no
\* stored Allow value to read.
C20_FallbackIsPermanent ==
    [][~mrPanic' =>
          /\ \A i \in 1..2 :
                (HasFallbackRoute(mr[i]) /\ IsSome(mr'[i])) =>
                    /\ HasFallbackRoute(mr'[i])
                    /\ Unwrap(mr'[i]).fallback.allow_header = None
          /\ (mop'.name = "merge" /\ (HasFallbackRoute(mr[1]) \/ HasFallbackRoute(mr[2]))) =>
                HasFallbackRoute(mr'[1])
          /\ (mop'.name = "dispatch" /\ HasFallbackRoute(mr[1])) =>
                /\ mop'.response = None
                /\ IsSome(mop'.invoked)
                /\ \A m \in Methods :
                      MethodRoute_call(Unwrap(mr'[1]), m).response = None
      ]_vars

\* C20 witness: the receiver holds the fallback Route it adopted from the router
\* merged into it and a method of its own, and a request with an unregistered
\* method was dispatched to that fallback Route
C20_Witness ==
    /\ mop.name = "dispatch" /\ ~mrPanic
    /\ IsSome(mr[1]) /\ IsSome(mr[2])
    /\ Unwrap(mr[1]).fallback = FallbackRoute(Route("f2"))
    /\ \E k \in DOMAIN Unwrap(mr[1]).handlers : Unwrap(mr[1]).handlers[k] = Route("h1")
    /\ Unwrap(mop.method) \notin DOMAIN Unwrap(mr[1]).handlers
    /\ mop.invoked = Some(Route("f2"))
    /\ mop.response = None

\* a merge step that panicked: both routers had a fallback Route
FailedMerge == mop'.name = "merge" /\ IsSome(mr[1]) /\ IsSome(mr[2]) /\ mrPanic'

\* what a failed merge does leave as it was: the receiver's fallback Route, and
\* with it the absence of a stored Allow value
FailedMergeKeepsFallback ==
    [][FailedMerge =>
          /\ IsSome(mr'[1])
          /\ Unwrap(mr'[1]).fallback = Unwrap(mr[1]).fallback
      ]_vars

\* C21: a merge that panics because both method routers have a fallback Route
\* leaves the receiver as it was before the call: the same method-to-Route map,
\* the same fallback, the same Allow value.
C21_FailedMergeLeavesReceiver ==
    [][FailedMerge => mr'[1] = mr[1]]_vars

\* the URI call hands to the formatter in RouteError::Expected
CorrectedUri == Unwrap(formatted[1].uri)

\* C22: the corrected URI of a trailing-slash mismatch has the request's path
\* with exactly one trailing '/' removed (extra slash) or appended (missing
\* slash), and the same request re-issued at it is an exact match of a
\* registered pattern: the lookup answers it with no second corrected URI.
C22_RedirectDoesNotLoop ==
    (Served /\ Len(formatted) = 1 /\ formatted[1].kind = "Expected") =>
        LET m == Router_at(routes, ThePath)
            again == call_lookup(routes, default,
                                 [TheReq EXCEPT !.uri = CorrectedUri])
        IN  /\ m.kind \in {"ExtraTrailingSlash", "MissingTrailingSlash"}
            /\ (m.kind = "ExtraTrailingSlash") =>
                  /\ CorrectedUri.path \o <<"/">> = ThePath
                  /\ ~EndsWithSlash(CorrectedUri.path)
            /\ (m.kind = "MissingTrailingSlash") =>
                  /\ CorrectedUri.path = ThePath \o <<"/">>
                  /\ ~EndsWithSlash(ThePath)
            /\ IsExact(CorrectedUri.path)
            /\ Router_at(routes, CorrectedUri.path).kind = "Ok"
            /\ again.ok \/ Unwrap(again.err).kind = "Path"

\* C22 witness: "/u/x/?x=1" was an extra-slash mismatch of "/u/:p"; the corrected
\* URI is "/u/x?x=1", which matches that pattern
C22_Witness ==
    /\ Served
    /\ Len(formatted) = 1 /\ formatted[1].kind = "Expected"
    /\ ThePath = <<"/", "u", "/", "x", "/">>
    /\ TheReq.uri.query = Some(<<"x", "=", "1">>)
    /\ CorrectedUri = Uri(<<>>, <<"/", "u", "/", "x">>, Some(<<"x", "=", "1">>))
    /\ \E i \in ExactHits(CorrectedUri.path) : routes[i].path \in {PatUP, PatUQ}

====
